---- MODULE Spec2Model ----
(***************************************************************************)
(* Model of the refresh-token lifecycle of the auth service:               *)
(* AccountController.login / refreshToken / logout working on the          *)
(* RefreshToken collection (Mongoose model, MongoDB store).                *)
(*                                                                         *)
(* Every handler is cut at its awaits: one action is "the awaited store    *)
(* operation takes effect, then the synchronous code up to the next        *)
(* await runs".  Requests of different slots interleave at those points.   *)
(***************************************************************************)
EXTENDS Integers, Sequences, FiniteSets, TLC

\* ------------------------------------------------------------------ bounds
MaxClock    == 2      \* the clock runs 0..MaxClock
MaxRequests == 5      \* requests received in one behaviour
MaxInFlight == 2      \* handlers running concurrently
MaxOverlaps == 1      \* requests received while another handler is running

\* ----------------------------------------------------------------- lifetimes
\* One tick of the clock stands for half a day; what happens within one tick
\* happens within one second (jwt's iat has the resolution of a second).
RefreshLife == 2      \* REFRESH_TOKEN_LIFE (one day)
RecordLife  == 2      \* expire_at = add(Date.now(), { days: 1 })
AccessLife  == 1      \* ACCESS_TOKEN_LIFE ("the shorter lifespan")

Users == {"u1", "u2"}
Slots == 1..MaxInFlight

\* ------------------------------------------------------- user directory
\* The User collection: fixed while the token protocol runs.
Company == [u \in Users |-> IF u = "u1" THEN "acme" ELSE "birch"]
Admin   == [u \in Users |-> u = "u1"]
Password == [u \in Users |-> "secret"]

\* identifiers and secrets a login request may carry
Emails  == {"u1", "U1", "u2", "nobody"}
Secrets == {"secret", "wrong"}

\* String.prototype.toLowerCase on the identifiers of the model
ToLowerCase(e) == IF e = "U1" THEN "u1" ELSE e

\* an authenticate that looks the user up and compares no password
Authenticate_AnySecret(email, password) ==
  IF email \in Users THEN email ELSE ""

\* User.authenticate: the user, or "" when the lookup or the compare fails
\* (the handler's catch turns the throw into 401)
Authenticate(email, password) ==
  IF email \in Users /\ Password[email] = password THEN email ELSE ""

\* ------------------------------------------------------------------ tokens
\* A token string is determined by its payload, its iat (seconds) and whether
\* the HS256 signature is the server's: jwt.sign is deterministic, two calls with
\* the same payload in the same second return the same string.  kind "empty" is a missing/empty body
\* field, kind "malformed" a string jwt.decode cannot decode.
Payload(u) == [sub |-> u, company |-> Company[u], admin |-> Admin[u]]

Sign(payload, now) ==
  [kind |-> "jwt", sub |-> payload.sub, company |-> payload.company,
   admin |-> payload.admin, iat |-> now, sig |-> TRUE]

EmptyToken     == [kind |-> "empty", sub |-> "", company |-> "", admin |-> FALSE,
                   iat |-> 0, sig |-> FALSE]
MalformedToken == [kind |-> "malformed", sub |-> "", company |-> "", admin |-> FALSE,
                   iat |-> 0, sig |-> FALSE]
\* a well-formed token the server never signed
Forged(u) == [Sign(Payload(u), 0) EXCEPT !.sig = FALSE]

\* a handler without the check for a missing token
MissingToken_Never(tok) == FALSE

\* !req.body.refreshToken: the field is absent or the empty string
MissingToken(tok) == tok.kind = "empty"

\* a payload built from the subject alone, the other claims read off the
\* token string instead of the decoded token
Decode_SubOnly(tok) == [sub |-> tok.sub, company |-> "", admin |-> FALSE]

\* jwt.decode: the payload without any verification
Decode(tok) == [sub |-> tok.sub, company |-> tok.company, admin |-> tok.admin]

\* a verification that checks the signature and not the exp claim
Verify_NoExpiry(tok, now) == IF ~tok.sig THEN "invalid" ELSE "ok"

\* jwt.verify: "ok", "expired" (TokenExpiredError) or "invalid" (JsonWebTokenError)
Verify(tok, now) ==
  IF ~tok.sig THEN "invalid"
  ELSE IF now >= tok.iat + RefreshLife THEN "expired"
  ELSE "ok"

\* The access token signed in the same handler run as refresh token tok: the
\* same payload and, signed in the same synchronous block, the same iat.
AccessToken(tok) ==
  [kind |-> "access", sub |-> tok.sub, company |-> tok.company, admin |-> tok.admin,
   iat |-> tok.iat, sig |-> tok.sig]

NoAccessToken == AccessToken(EmptyToken)

\* jwt.verify(token, ACCESS_TOKEN_PUB) in authenticateJWT
VerifyAccess(tok, now) ==
  IF tok.kind # "access" \/ ~tok.sig THEN "invalid"
  ELSE IF now >= tok.iat + AccessLife THEN "expired"
  ELSE "ok"

\* ids a request to /users/:id may carry: a user's, a well-formed id of no
\* user, and a string that is no ObjectId
UserIds == {"u2", "nobody", "bad"}

\* UsersController.loadUser: User.findById(id); "" stands for createError(404),
\* both when no user has the id and when the id does not cast (CastError)
LoadUser(id) == IF id \in Users THEN id ELSE ""

\* ------------------------------------------------------- RefreshToken store
\* The collection is a sequence in natural (insertion) order, the order in
\* which a query without sort returns its first match.  A document:
\*   [id, user, token, usedTokens, expire_at]
\* The schema declares no unique index on user or token.
NewRefreshToken(id, tok, u, now) ==
  [id |-> id, user |-> u, token |-> tok, usedTokens |-> <<>>,
   expire_at |-> now + RecordLife]

InSeq(x, s) == \E i \in 1..Len(s) : s[i] = x

\* findOne: the first of the matching documents (given by their indices) in
\* natural order, 0 when none matches
FirstIndex(hits) ==
  IF hits = {} THEN 0 ELSE CHOOSE i \in hits : \A j \in hits : i <= j

\* RefreshToken.findOne({ token })
FindOneByToken(s, tok) == FirstIndex({i \in 1..Len(s) : s[i].token = tok})
\* RefreshToken.findOne({ user })
FindOneByUser(s, u) == FirstIndex({i \in 1..Len(s) : s[i].user = u})

\* the store without the documents at the indices in drop
Without(s, drop) ==
  LET F[i \in 0..Len(s)] ==
        IF i = 0 THEN <<>>
        ELSE IF i \in drop THEN F[i - 1] ELSE Append(F[i - 1], s[i])
  IN F[Len(s)]

\* a findOneAndUpdate with { upsert: true }: a collection without document
\* gets one made of the update
FindOneAndUpdate_Upsert(s, update) ==
  IF Len(s) = 0
  THEN <<[id |-> 0, user |-> IF "user" \in DOMAIN update THEN update.user ELSE update.token.sub,
          token |-> update.token, usedTokens |-> <<>>, expire_at |-> RecordLife]>>
  ELSE [s EXCEPT ![1] = [f \in DOMAIN s[1] |->
                           IF f \in DOMAIN update THEN update[f] ELSE s[1][f]]]

\* Model.findOneAndUpdate called with ONE argument: Mongoose takes the single
\* argument as the update and leaves the conditions undefined, so the first
\* document of the collection gets the fields of `update` set; nothing is
\* inserted when the collection is empty (no upsert).
FindOneAndUpdate(s, update) ==
  IF Len(s) = 0 THEN s
  ELSE [s EXCEPT ![1] = [f \in DOMAIN s[1] |->
                           IF f \in DOMAIN update THEN update[f] ELSE s[1][f]]]

\* a $set written where the $push belongs: the history is overwritten
FindByIdAndUpdate_Set(s, id, tok) ==
  [i \in 1..Len(s) |->
     IF s[i].id = id THEN [s[i] EXCEPT !.usedTokens = <<tok>>] ELSE s[i]]

\* RefreshToken.findByIdAndUpdate({ _id }, { $push: { usedTokens: tok } })
FindByIdAndUpdate(s, id, tok) ==
  [i \in 1..Len(s) |->
     IF s[i].id = id
     THEN [s[i] EXCEPT !.usedTokens = Append(s[i].usedTokens, tok)]
     ELSE s[i]]

\* a deleteMany where the findOneAndDelete belongs
FindOneAndDelete_Many(s, tok) == Without(s, {i \in 1..Len(s) : s[i].token = tok})

\* RefreshToken.findOneAndDelete({ token })
FindOneAndDelete(s, tok) ==
  LET i == FindOneByToken(s, tok) IN IF i = 0 THEN s ELSE Without(s, {i})

\* document.delete(): deleteOne({ _id })
DeleteById(s, id) == Without(s, {i \in 1..Len(s) : s[i].id = id})

\* newRefreshToken.save(): insert
Save(s, doc) == Append(s, doc)

\* ------------------------------------------------------------------- state
VARIABLES
  store,       \* the RefreshToken collection
  nextId,      \* _ids handed out so far + 1
  clock,       \* Date.now(), in ticks
  reqs,        \* per slot: the handler running there and its locals
  pendingDel,  \* _ids whose un-awaited document.delete() has not taken effect yet
  resp,        \* the response the last step sent (NoResp when it sent none)
  issued,      \* refresh tokens handed to clients in 200 responses
  nreq,        \* requests received so far
  novl,        \* requests received so far while another handler was running
  rotated,     \* history: tokens whose refresh was answered 200
  everStored,  \* history: tokens that were ever in a document (token or usedTokens)
  dead,        \* history: tokens of a family revoked by reuse detection, until re-login
  passwords    \* the User collection: the password stored for each user

vars == <<store, nextId, clock, reqs, pendingDel, resp, issued, nreq, novl,
          rotated, everStored, dead, passwords>>

\* a slot with no handler running.  late and deadAtStart are history flags of
\* the request: what held of its token when the request was received.  nops
\* counts the RefreshToken operations the handler has called so far, and
\* ownerOk records whether the document its first findOne returned belonged to
\* the subject of the presented token.  afterLogout: the request was received
\* right after a logout of its token had been answered 204.
Idle == [op |-> "none", pc |-> "idle", tok |-> EmptyToken, user |-> "",
         newTok |-> EmptyToken, foundId |-> 0, foundTok |-> EmptyToken,
         docId |-> 0, docNow |-> 0, late |-> FALSE, deadAtStart |-> FALSE,
         nops |-> 0, ownerOk |-> FALSE, afterLogout |-> FALSE]

NoClaims == [sub |-> "", company |-> "", admin |-> FALSE]

\* a request body of updatePassword without any field
NoBody == [email |-> "", password |-> "", newPassword |-> "", newPasswordConfirm |-> ""]

\* the message createError(status) gives an error (http-errors)
DefaultMessage(status) ==
  CASE status = 400 -> "Bad Request"
    [] status = 401 -> "Unauthorized"
    [] status = 403 -> "Forbidden"
    [] status = 404 -> "Not Found"
    [] OTHER -> ""

\* the error handler of the application: the message of the response to an
\* error of that status and message
ErrorMessage(status, message) ==
  CASE status = 500 -> "An unexpected condition was encountered."
    [] status = 400 -> "The request cannot or will not be processed due to something that is perceived to be a client error (for example validation error)."
    [] status = 409 -> "The username and / or email address is already registered."
    [] OTHER -> message

\* the modes the application runs in: req.app.get('env')
Envs == {"development", "production"}

NoResp == [op |-> "none", status |-> 0, tok |-> EmptyToken, user |-> "",
           refresh_token |-> EmptyToken, access_token |-> NoClaims,
           late |-> FALSE, deadAtStart |-> FALSE, again |-> FALSE,
           nops |-> 0, foundId |-> 0, ownerOk |-> FALSE,
           route |-> "", id |-> "", scheme |-> "", access |-> NoAccessToken,
           afterLogout |-> FALSE, message |-> "",
           storeError |-> FALSE, env |-> "", cause |-> FALSE, body |-> NoBody]

\* the response of request q: res.status(status).json({access_token, refresh_token})
\* or next(error) with that status
Respond(q, status, refreshTok, accessTok) ==
  [op |-> q.op, status |-> status, tok |-> q.tok, user |-> q.user,
   refresh_token |-> refreshTok, access_token |-> accessTok,
   late |-> q.late, deadAtStart |-> q.deadAtStart, again |-> (q.tok \in rotated),
   nops |-> q.nops, foundId |-> q.foundId, ownerOk |-> q.ownerOk,
   route |-> "", id |-> "", scheme |-> "", access |-> NoAccessToken,
   afterLogout |-> q.afterLogout,
   message |-> IF status < 400 THEN "" ELSE ErrorMessage(status, DefaultMessage(status)),
   storeError |-> FALSE, env |-> "", cause |-> FALSE, body |-> NoBody]

\* tokens a client can put in a request body
Presentable == issued \cup {Forged(u) : u \in Users} \cup {MalformedToken, EmptyToken}

TokensOf(s) ==
  {s[i].token : i \in 1..Len(s)}
    \cup UNION {{s[i].usedTokens[k] : k \in 1..Len(s[i].usedTokens)} : i \in 1..Len(s)}

Init ==
  /\ store = <<>>
  /\ nextId = 1
  /\ clock = 0
  /\ reqs = [r \in Slots |-> Idle]
  /\ pendingDel = {}
  /\ resp = NoResp
  /\ issued = {}
  /\ nreq = 0
  /\ novl = 0
  /\ rotated = {}
  /\ everStored = {}
  /\ dead = {}
  /\ passwords = Password

\* ------------------------------------------------------------------- steps
\* the store-independent bookkeeping of a step that changes the store to s
Stored(s) == everStored \cup TokensOf(s)

AllIdle == \A r \in Slots : reqs[r].pc = "idle"

\* A request is received into the lowest slot that runs no handler (slots are
\* interchangeable), within the bounds on requests and on overlapping requests.
Receive(r) ==
  /\ reqs[r].pc = "idle" /\ \A r2 \in Slots : r2 < r => reqs[r2].pc # "idle"
  /\ nreq < MaxRequests
  /\ nreq' = nreq + 1
  /\ IF AllIdle THEN novl' = novl ELSE novl < MaxOverlaps /\ novl' = novl + 1

\* ---- login ---------------------------------------------------------------
\* User.authenticate(req.body.email.toLowerCase(), req.body.password), then the
\* two jwt.sign calls; a failed authentication is caught and answered 401.
LoginAuthenticate(r, email, password) ==
  /\ Receive(r)
  /\ LET user == Authenticate(ToLowerCase(email), password)
         q == [Idle EXCEPT !.op = "login", !.user = user]
     IN IF user = ""
        THEN /\ resp' = Respond(q, 401, EmptyToken, NoClaims)
             /\ reqs' = reqs
        ELSE /\ resp' = NoResp
             /\ reqs' = [reqs EXCEPT ![r] =
                           [q EXCEPT !.pc = "find",
                                     !.newTok = Sign(Payload(user), clock)]]
  /\ UNCHANGED <<passwords, store, nextId, clock, pendingDel, issued, rotated, everStored, dead>>

\* await RefreshToken.findOne({ user: user.id }), then either the document is
\* constructed (its _id and expire_at are fixed here) or the update is issued.
LoginFindOne(r) ==
  /\ reqs[r].op = "login" /\ reqs[r].pc = "find"
  /\ LET i == FindOneByUser(store, reqs[r].user)
     IN IF i = 0
        THEN /\ reqs' = [reqs EXCEPT ![r].pc = "save", ![r].docId = nextId,
                                     ![r].docNow = clock, ![r].nops = 1]
             /\ nextId' = nextId + 1
        ELSE /\ reqs' = [reqs EXCEPT ![r].pc = "update", ![r].foundId = store[i].id,
                                     ![r].foundTok = store[i].token, ![r].nops = 1]
             /\ nextId' = nextId
  /\ resp' = NoResp
  /\ UNCHANGED <<passwords, store, clock, pendingDel, issued, nreq, novl, rotated, everStored, dead>>

\* await newRefreshToken.save(), then 200 with both tokens
LoginSave(r) ==
  /\ reqs[r].op = "login" /\ reqs[r].pc = "save"
  /\ LET q == [reqs[r] EXCEPT !.nops = @ + 1]
         doc == NewRefreshToken(q.docId, q.newTok, q.user, q.docNow)
     IN /\ store' = Save(store, doc)
        /\ resp' = Respond(q, 200, q.newTok, Decode(q.newTok))
        /\ issued' = issued \cup {q.newTok}
        /\ dead' = {t \in dead : t.sub # q.user}
  /\ reqs' = [reqs EXCEPT ![r] = Idle]
  /\ everStored' = Stored(store')
  /\ UNCHANGED <<passwords, nextId, clock, pendingDel, nreq, novl, rotated>>

\* await RefreshToken.findOneAndUpdate({ user: user.id, token: refreshToken })
LoginUpdate(r) ==
  /\ reqs[r].op = "login" /\ reqs[r].pc = "update"
  /\ store' = FindOneAndUpdate(store, [user |-> reqs[r].user, token |-> reqs[r].newTok])
  /\ reqs' = [reqs EXCEPT ![r].pc = "push", ![r].nops = @ + 1]
  /\ resp' = NoResp
  /\ everStored' = Stored(store')
  /\ UNCHANGED <<passwords, nextId, clock, pendingDel, issued, nreq, novl, rotated, dead>>

\* await RefreshToken.findByIdAndUpdate({ _id }, { $push: { usedTokens: old } }),
\* then 200 with both tokens
LoginPush(r) ==
  /\ reqs[r].op = "login" /\ reqs[r].pc = "push"
  /\ LET q == [reqs[r] EXCEPT !.nops = @ + 1]
     IN /\ store' = FindByIdAndUpdate(store, q.foundId, q.foundTok)
        /\ resp' = Respond(q, 200, q.newTok, Decode(q.newTok))
        /\ issued' = issued \cup {q.newTok}
        /\ dead' = {t \in dead : t.sub # q.user}
  /\ reqs' = [reqs EXCEPT ![r] = Idle]
  /\ everStored' = Stored(store')
  /\ UNCHANGED <<passwords, nextId, clock, pendingDel, nreq, novl, rotated>>

\* ---- refresh -------------------------------------------------------------
\* The 400 check, then await RefreshToken.findOne({ token: requestToken }), then
\* jwt.decode(requestToken).sub: for an undecodable token jwt.decode returns null,
\* the property access throws a TypeError and the catch passes it to next(err),
\* which the error handler answers 500.
RefreshStart(r, tok) ==
  /\ Receive(r)
  /\ tok \in Presentable
  /\ LET q0 == [Idle EXCEPT !.op = "refresh", !.tok = tok,
                            !.late = (tok \in rotated),
                            !.deadAtStart = (tok \in dead /\ pendingDel = {}),
                            !.afterLogout = (/\ resp.op = "logout" /\ resp.status = 204
                                             /\ resp.tok = tok)]
         i == FindOneByToken(store, tok)
         q == [q0 EXCEPT !.nops = 1,
                         !.foundId = IF i = 0 THEN 0 ELSE store[i].id,
                         !.ownerOk = (i # 0 /\ store[i].user = tok.sub)]
     IN IF MissingToken(tok)
        THEN /\ resp' = Respond(q0, 400, EmptyToken, NoClaims)
             /\ reqs' = reqs
        ELSE IF tok.kind = "malformed"
        THEN /\ resp' = Respond(q, 500, EmptyToken, NoClaims)
             /\ reqs' = reqs
        ELSE /\ resp' = NoResp
             /\ reqs' = [reqs EXCEPT ![r] = [q EXCEPT !.pc = "findUser"]]
  /\ UNCHANGED <<passwords, store, nextId, clock, pendingDel, issued, rotated, everStored, dead>>

\* await RefreshToken.findOne({ user: tokenUser }); the reuse check, which calls
\* userRefreshToken.delete() without awaiting it; 401 when the token was not
\* found; jwt.verify; the two jwt.sign calls.
RefreshFindUser(r) ==
  /\ reqs[r].op = "refresh" /\ reqs[r].pc = "findUser"
  /\ LET q0 == reqs[r]
         i == FindOneByUser(store, Decode(q0.tok).sub)
         misuse == i # 0 /\ InSeq(q0.tok, store[i].usedTokens)
         q == [q0 EXCEPT !.nops = IF misuse THEN @ + 2 ELSE @ + 1]
         v == Verify(q0.tok, clock)
     IN /\ pendingDel' = IF misuse THEN pendingDel \cup {store[i].id} ELSE pendingDel
        /\ dead' = IF misuse THEN dead \cup {t \in issued : t.sub = q0.tok.sub} ELSE dead
        /\ IF q0.foundId = 0
           THEN /\ resp' = [Respond(q, 401, EmptyToken, NoClaims)
                              EXCEPT !.message = ErrorMessage(401, "Invalid token")]
                /\ reqs' = [reqs EXCEPT ![r] = Idle]
           ELSE IF v = "expired"
           THEN /\ resp' = [Respond(q, 401, EmptyToken, NoClaims)
                              EXCEPT !.message = ErrorMessage(401, "Invalid refresh token")]
                /\ reqs' = [reqs EXCEPT ![r] = Idle]
           ELSE IF v = "invalid"
           THEN /\ resp' = Respond(q, 500, EmptyToken, NoClaims)
                /\ reqs' = [reqs EXCEPT ![r] = Idle]
           ELSE /\ resp' = NoResp
                /\ reqs' = [reqs EXCEPT ![r] =
                              [q EXCEPT !.pc = "update",
                                        !.newTok = Sign(Decode(q0.tok), clock)]]
  /\ UNCHANGED <<passwords, store, nextId, clock, issued, nreq, novl, rotated, everStored>>

\* await RefreshToken.findOneAndUpdate({ token: newRefreshToken })
RefreshUpdate(r) ==
  /\ reqs[r].op = "refresh" /\ reqs[r].pc = "update"
  /\ store' = FindOneAndUpdate(store, [token |-> reqs[r].newTok])
  /\ reqs' = [reqs EXCEPT ![r].pc = "push", ![r].nops = @ + 1]
  /\ resp' = NoResp
  /\ everStored' = Stored(store')
  /\ UNCHANGED <<passwords, nextId, clock, pendingDel, issued, nreq, novl, rotated, dead>>

\* await RefreshToken.findByIdAndUpdate({ _id }, { $push: { usedTokens: requestToken } }),
\* then 200 with the new pair
RefreshPush(r) ==
  /\ reqs[r].op = "refresh" /\ reqs[r].pc = "push"
  /\ LET q == [reqs[r] EXCEPT !.nops = @ + 1]
     IN /\ store' = FindByIdAndUpdate(store, q.foundId, q.tok)
        /\ resp' = Respond(q, 200, q.newTok, Decode(q.newTok))
        /\ issued' = issued \cup {q.newTok}
        /\ rotated' = rotated \cup {q.tok}
  /\ reqs' = [reqs EXCEPT ![r] = Idle]
  /\ everStored' = Stored(store')
  /\ UNCHANGED <<passwords, nextId, clock, pendingDel, nreq, novl, dead>>

\* the un-awaited userRefreshToken.delete() takes effect
DeleteTakesEffect(id) ==
  /\ id \in pendingDel
  /\ store' = DeleteById(store, id)
  /\ pendingDel' = pendingDel \ {id}
  /\ resp' = NoResp
  /\ UNCHANGED <<passwords, nextId, clock, reqs, issued, nreq, novl, rotated, everStored, dead>>

\* ---- logout --------------------------------------------------------------
\* the 400 check, await RefreshToken.findOneAndDelete({ token }), 204
Logout(r, tok) ==
  /\ Receive(r)
  /\ tok \in Presentable
  /\ LET q0 == [Idle EXCEPT !.op = "logout", !.tok = tok]
         i == FindOneByToken(store, tok)
         q == [q0 EXCEPT !.nops = 1, !.foundId = IF i = 0 THEN 0 ELSE store[i].id]
     IN IF MissingToken(tok)
        THEN /\ resp' = Respond(q0, 400, EmptyToken, NoClaims)
             /\ store' = store
        ELSE /\ resp' = Respond(q, 204, EmptyToken, NoClaims)
             /\ store' = FindOneAndDelete(store, tok)
  /\ UNCHANGED <<passwords, nextId, clock, reqs, pendingDel, issued, rotated, everStored, dead>>

\* ---- environment ---------------------------------------------------------
\* MongoDB's TTL monitor removes a document whose expire_at has passed
ExpireSweep(i) ==
  /\ i \in 1..Len(store)
  /\ store[i].expire_at <= clock
  /\ store' = Without(store, {i})
  /\ resp' = NoResp
  /\ UNCHANGED <<passwords, nextId, clock, reqs, pendingDel, issued, nreq, novl, rotated, everStored, dead>>

Tick ==
  /\ clock < MaxClock
  /\ clock' = clock + 1
  /\ resp' = NoResp
  /\ UNCHANGED <<passwords, store, nextId, reqs, pendingDel, issued, nreq, novl, rotated, everStored, dead>>

Next ==
  \/ \E r \in Slots, e \in Emails, p \in Secrets : LoginAuthenticate(r, e, p)
  \/ \E r \in Slots : LoginFindOne(r)
  \/ \E r \in Slots : LoginSave(r)
  \/ \E r \in Slots : LoginUpdate(r)
  \/ \E r \in Slots : LoginPush(r)
  \/ \E r \in Slots, t \in Presentable : RefreshStart(r, t)
  \/ \E r \in Slots : RefreshFindUser(r)
  \/ \E r \in Slots : RefreshUpdate(r)
  \/ \E r \in Slots : RefreshPush(r)
  \/ \E id \in pendingDel : DeleteTakesEffect(id)
  \/ \E r \in Slots, t \in Presentable : Logout(r, t)
  \/ \E i \in 1..Len(store) : ExpireSweep(i)
  \/ Tick

Spec == Init /\ [][Next]_vars

\* The same handlers with requests served one at a time: a request is received
\* only when no handler is running, and the TTL monitor runs between requests.
NextSeq ==
  \/ \E r \in Slots, e \in Emails, p \in Secrets : AllIdle /\ LoginAuthenticate(r, e, p)
  \/ \E r \in Slots : LoginFindOne(r)
  \/ \E r \in Slots : LoginSave(r)
  \/ \E r \in Slots : LoginUpdate(r)
  \/ \E r \in Slots : LoginPush(r)
  \/ \E r \in Slots, t \in Presentable : AllIdle /\ RefreshStart(r, t)
  \/ \E r \in Slots : RefreshFindUser(r)
  \/ \E r \in Slots : RefreshUpdate(r)
  \/ \E r \in Slots : RefreshPush(r)
  \/ \E id \in pendingDel : DeleteTakesEffect(id)
  \/ \E r \in Slots, t \in Presentable : AllIdle /\ Logout(r, t)
  \/ \E i \in 1..Len(store) : AllIdle /\ ExpireSweep(i)
  \/ Tick

SpecSeq == Init /\ [][NextSeq]_vars

\* ---- protected routes ----------------------------------------------------
\* what a client can put after the scheme: an access token it was handed, or
\* one it made up with the admin claim set
PresentableAccess ==
  {AccessToken(t) : t \in issued} \cup {AccessToken(Forged("u1"))}

\* the request targets: GET /users, and GET /users/:id with an id
Targets ==
  {[route |-> "/users", id |-> ""]} \cup {[route |-> "/users/:id", id |-> i] : i \in UserIds}

\* the Authorization header: absent (scheme ""), or a scheme and a token
Headers ==
  {[scheme |-> "", token |-> NoAccessToken],
   [scheme |-> "Basic", token |-> AccessToken(Forged("u1"))]}
    \cup {[scheme |-> "Bearer", token |-> t] : t \in PresentableAccess}

\* GET /users and GET /users/:id.  For /users/:id Express runs the router.param
\* callback (loadUser) before the handlers of the route; then authenticateJWT,
\* authorizeUser and the controller method, each answering through next(error)
\* when it fails.
UsersRequest(r, target, header) ==
  /\ Receive(r)
  /\ target \in Targets /\ header \in Headers
  /\ LET status ==
           IF target.route = "/users/:id" /\ LoadUser(target.id) = "" THEN 404
           ELSE IF header.scheme # "Bearer" THEN 401
           ELSE IF VerifyAccess(header.token, clock) # "ok" THEN 401
           ELSE IF ~header.token.admin THEN 403
           ELSE 200
     IN resp' = [NoResp EXCEPT !.op = "users", !.status = status,
                               !.message = IF status < 400 THEN ""
                                           ELSE ErrorMessage(status, DefaultMessage(status)),
                               !.route = target.route, !.id = target.id,
                               !.scheme = header.scheme, !.access = header.token]
  /\ UNCHANGED <<passwords, store, nextId, clock, reqs, pendingDel, issued, rotated, everStored, dead>>

\* the account routes served one request at a time, and the protected routes
NextUsers ==
  \/ NextSeq
  \/ \E r \in Slots, target \in Targets, header \in Headers :
        AllIdle /\ UsersRequest(r, target, header)

SpecUsers == Init /\ [][NextUsers]_vars

\* ---- store failures ------------------------------------------------------
\* The response to a request whose awaited RefreshToken operation rejected:
\* the handler's catch builds an error of that status, the error handler
\* answers it, with the cause only when the application runs in development.
StoreFailure(q, status, env) ==
  [Respond(q, status, EmptyToken, NoClaims)
     EXCEPT !.storeError = TRUE, !.env = env, !.cause = (env = "development")]

\* login: the awaited findOne, save, findOneAndUpdate or findByIdAndUpdate
\* rejects; the catch answers every error with createError(401)
LoginStoreFails(r, env) ==
  /\ reqs[r].op = "login" /\ reqs[r].pc \in {"find", "save", "update", "push"}
  /\ env \in Envs
  /\ resp' = StoreFailure(reqs[r], 401, env)
  /\ reqs' = [reqs EXCEPT ![r] = Idle]
  /\ UNCHANGED <<passwords, store, nextId, clock, pendingDel, issued, nreq, novl,
                 rotated, everStored, dead>>

\* refresh: the awaited operation rejects; the error is no TokenExpiredError,
\* the catch passes it to next(err) and the error handler makes it a 500
RefreshStoreFails(r, env) ==
  /\ reqs[r].op = "refresh" /\ reqs[r].pc \in {"findUser", "update", "push"}
  /\ env \in Envs
  /\ resp' = StoreFailure(reqs[r], 500, env)
  /\ reqs' = [reqs EXCEPT ![r] = Idle]
  /\ UNCHANGED <<passwords, store, nextId, clock, pendingDel, issued, nreq, novl,
                 rotated, everStored, dead>>

\* logout: findOneAndDelete rejects; the catch answers createError(400)
LogoutStoreFails(r, tok, env) ==
  /\ Receive(r)
  /\ tok \in Presentable /\ ~MissingToken(tok)
  /\ env \in Envs
  /\ resp' = StoreFailure([Idle EXCEPT !.op = "logout", !.tok = tok, !.nops = 1], 400, env)
  /\ UNCHANGED <<passwords, store, nextId, clock, reqs, pendingDel, issued,
                 rotated, everStored, dead>>

\* the account routes served one request at a time over a store that may fail
NextFail ==
  \/ NextSeq
  \/ \E r \in Slots, env \in Envs : LoginStoreFails(r, env)
  \/ \E r \in Slots, env \in Envs : RefreshStoreFails(r, env)
  \/ \E r \in Slots, t \in Presentable, env \in Envs :
        AllIdle /\ LogoutStoreFails(r, t, env)

SpecFail == Init /\ [][NextFail]_vars

\* ---- updatePassword ------------------------------------------------------
\* values of the fields of the request body; "" is a missing (or empty) field
NewPasswords == {"", "fresh", "other"}

Bodies ==
  [email : Emails \cup {""}, password : Secrets \cup {""},
   newPassword : NewPasswords, newPasswordConfirm : NewPasswords]

\* User.authenticate against the passwords the collection holds now
AuthenticateStored(email, password) ==
  IF email \in Users /\ passwords[email] = password THEN email ELSE ""

\* AccountController.updatePassword.  The two checks call next(error) and do
\* not return: the handler goes on to User.authenticate.  When that throws,
\* the catch calls next(error) (again); otherwise user.password is assigned and
\* user.save() called, which fails validation for a missing password, and
\* res.status(204).end() runs.  The response the client gets is the first one
\* written.
UpdatePassword(body) ==
  /\ body \in Bodies
  /\ LET missing  == \/ body.email = "" \/ body.password = ""
                     \/ body.newPassword = "" \/ body.newPasswordConfirm = ""
         mismatch == ~missing /\ body.newPassword # body.newPasswordConfirm
         user     == AuthenticateStored(ToLowerCase(body.email), body.password)
         status   == IF missing \/ mismatch \/ user = "" THEN 400 ELSE 204
     IN /\ passwords' = IF user # "" /\ body.newPassword # ""
                        THEN [passwords EXCEPT ![user] = body.newPassword]
                        ELSE passwords
        /\ resp' = [NoResp EXCEPT !.op = "updatePassword", !.status = status,
                                  !.body = body,
                                  !.message = IF status < 400 THEN ""
                                              ELSE ErrorMessage(status, DefaultMessage(status))]
  /\ UNCHANGED <<store, nextId, clock, reqs, pendingDel, issued, nreq, novl,
                 rotated, everStored, dead>>

NextPassword == \E body \in Bodies : UpdatePassword(body)

SpecPassword == Init /\ [][NextPassword]_vars

\* ------------------------------------------------------------------ claims
\* documents owned by principal u
RecordsOf(s, u) == {i \in 1..Len(s) : s[i].user = u}

\* slot r takes the step
Steps(r) == reqs'[r] # reqs[r]

\* C1: a refresh token succeeds at refresh at most once: a refresh request
\* received after refresh of the same token was answered 200 is never answered 200.
C1_RefreshSucceedsOnce ==
  ~(resp.op = "refresh" /\ resp.status = 200 /\ resp.late)

\* C2: when the refresh handler reads the store for a token that is in usedTokens
\* of a record owned by the token's subject, it deletes every record of that
\* principal (the deletion of each is at least issued by that step).
C2_ReuseDeletesRecord ==
  [][\A r \in Slots :
       (/\ reqs[r].op = "refresh" /\ reqs[r].pc = "findUser" /\ Steps(r)
        /\ \E i \in RecordsOf(store, reqs[r].tok.sub) :
              InSeq(reqs[r].tok, store[i].usedTokens))
       => \A i \in RecordsOf(store, reqs[r].tok.sub) : store[i].id \in pendingDel']_vars

\* C3: after a refresh answered 200 for principal p, the lookup by the returned
\* refresh token yields a record owned by p.
C3_ReturnedTokenIsCurrent ==
  (resp.op = "refresh" /\ resp.status = 200)
    => LET i == FindOneByToken(store, resp.refresh_token)
       IN i # 0 /\ store[i].user = resp.tok.sub

\* C4: in every reachable state no record's currentToken is in its usedTokens.
C4_CurrentNotInUsed ==
  \A i \in 1..Len(store) : ~InSeq(store[i].token, store[i].usedTokens)

\* C5: in every reachable state the store holds at most one record per owner.
C5_OneRecordPerPrincipal ==
  \A i, j \in 1..Len(store) : store[i].user = store[j].user => i = j

\* C6: once reuse has been detected for p (and the deletion has taken effect),
\* a refresh token issued to p before that moment is not answered 200 by a
\* refresh received afterwards, as long as p has not logged in again.
C6_FamilyRevoked ==
  ~(resp.op = "refresh" /\ resp.status = 200 /\ resp.deadAtStart /\ resp.tok \in dead)

\* C7: of two refresh requests presenting the same token that run concurrently
\* (the second received before the first was answered), at most one is answered 200.
C7_ConcurrentRefreshOnce ==
  ~(resp.op = "refresh" /\ resp.status = 200 /\ ~resp.late /\ resp.again)

\* C8: after a login answered 200 for p, p's record exists and the currentToken
\* of what the store holds for p is the refresh token of the response.
C8_LoginTokenIsCurrent ==
  (resp.op = "login" /\ resp.status = 200)
    => /\ RecordsOf(store, resp.user) # {}
       /\ \A i \in RecordsOf(store, resp.user) : store[i].token = resp.refresh_token

\* C9 (as amended): a login never rewrites history.  A record it creates has
\* empty usedTokens; a login that found a record for p appends the currentToken
\* it read from that record, once, to that record's usedTokens (if the record
\* still exists); it removes no record and changes no other usedTokens.
C9_LoginAppendsOldToken ==
  [][\A r \in Slots :
       (reqs[r].op = "login" /\ Steps(r))
       => /\ \A j \in 1..Len(store') :
               \/ \E i \in 1..Len(store) : store[i].id = store'[j].id
               \/ store'[j].usedTokens = <<>>
          /\ \A i \in 1..Len(store) : \E j \in 1..Len(store') :
               /\ store'[j].id = store[i].id
               /\ store'[j].usedTokens =
                    IF reqs'[r].pc = "idle" /\ reqs[r].foundId = store[i].id
                    THEN Append(store[i].usedTokens, reqs[r].foundTok)
                    ELSE store[i].usedTokens]_vars

\* a login answered 200 that found p's record and pushed its old token, in a
\* run where no refresh has rotated anything
C9_Witness ==
  /\ resp.op = "login" /\ resp.status = 200 /\ rotated = {}
  /\ \E i \in 1..Len(store) : store[i].user = resp.user /\ Len(store[i].usedTokens) = 1

\* C9 as stated: no step of a login handler changes the usedTokens of a record.
C9_LoginKeepsUsedTokens ==
  [][\A r \in Slots :
       (reqs[r].op = "login" /\ Steps(r))
       => \A i \in 1..Len(store) : \A j \in 1..Len(store') :
            store'[j].id = store[i].id => store'[j].usedTokens = store[i].usedTokens]_vars

\* the step is one of a refresh handler presenting token t: a step into a
\* later position of the handler, or the step that answers
RefreshStepOf(t) ==
  \/ resp'.op = "refresh" /\ resp'.tok = t
  \/ \E r \in Slots : Steps(r) /\ reqs'[r].op = "refresh" /\ reqs'[r].tok = t

\* C10: a refresh presenting a non-empty token that never was in any record is
\* answered 401 and leaves the store as it was.
C10_UnknownTokenRejected ==
  [][\A t \in Presentable :
       (RefreshStepOf(t) /\ t.kind # "empty" /\ t \notin everStored')
       => /\ store' = store
          /\ pendingDel' = pendingDel
          /\ resp'.status \in {0, 401}]_vars

\* tokens retired into the usedTokens of some document of s
UsedIn(s) ==
  UNION {{s[i].usedTokens[k] : k \in 1..Len(s[i].usedTokens)} : i \in 1..Len(s)}

\* C11: a refresh whose token fails verification when the handler verifies it
\* (bad signature, or past its lifetime) and is in no usedTokens is answered 401
\* by that step, which neither deletes nor changes any record.
C11_FailedVerificationKeepsRecord ==
  [][\A r \in Slots :
       (/\ reqs[r].op = "refresh" /\ reqs[r].pc = "findUser" /\ Steps(r)
        /\ (~reqs[r].tok.sig \/ clock >= reqs[r].tok.iat + RefreshLife)
        /\ reqs[r].tok \notin UsedIn(store))
       => /\ resp'.op = "refresh" /\ resp'.tok = reqs[r].tok /\ resp'.status = 401
          /\ store' = store
          /\ pendingDel' = pendingDel]_vars

\* an expired token that is still the currentToken of a record of its subject,
\* presented and answered 401 with the record in place
C11_Witness ==
  /\ resp.op = "refresh" /\ resp.status = 401
  /\ resp.tok.sig /\ clock >= resp.tok.iat + RefreshLife
  /\ resp.tok \notin UsedIn(store)
  /\ \E i \in 1..Len(store) : store[i].token = resp.tok /\ store[i].user = resp.tok.sub

\* C12: a refresh with an empty or missing refreshToken is answered 400 by the
\* step that receives it, having called no RefreshToken operation, and the store
\* and the pending deletions are as before.
C12_EmptyTokenNoStoreAccess ==
  [][\A t \in Presentable :
       (RefreshStepOf(t) /\ t = EmptyToken)
       => /\ resp'.op = "refresh" /\ resp'.status = 400 /\ resp'.nops = 0
          /\ store' = store
          /\ pendingDel' = pendingDel
          /\ reqs' = reqs]_vars

\* a refresh without token answered 400 while the store holds records
C12_Witness ==
  /\ resp.op = "refresh" /\ resp.tok = EmptyToken /\ resp.status = 400
  /\ Len(store) > 0

\* C13: a logout presenting the currentToken of a record is answered 204 and
\* removes exactly one record, one that holds the token, every other record
\* staying as it was and in place; a logout without token is answered 400 and
\* changes nothing.
C13_LogoutDeletesThatRecord ==
  [][resp'.op = "logout"
       => /\ pendingDel' = pendingDel
          /\ IF resp'.tok = EmptyToken
             THEN resp'.status = 400 /\ store' = store
             ELSE (\E i \in 1..Len(store) : store[i].token = resp'.tok)
                  => /\ resp'.status = 204
                     /\ \E i \in 1..Len(store) :
                          store[i].token = resp'.tok /\ store' = Without(store, {i})]_vars

\* a logout that deleted the record it found and left another record behind
C13_Witness ==
  /\ resp.op = "logout" /\ resp.status = 204 /\ resp.foundId # 0
  /\ Len(store) > 0
  /\ \A i \in 1..Len(store) : store[i].id # resp.foundId

\* C14: a logout that directly follows a logout answered 204 for the same token
\* is answered 204 too and leaves the store as the first one left it.
C14_LogoutIdempotent ==
  [][(/\ resp.op = "logout" /\ resp.status = 204
      /\ resp'.op = "logout" /\ resp'.tok = resp.tok)
     => resp'.status = 204 /\ store' = store]_vars

\* the step is one of a request made for principal p: a step of a login handler
\* of p, of a refresh handler presenting a token of p, or p's logout
ActsFor(p) ==
  \/ \E r \in Slots : /\ Steps(r)
                       /\ \/ reqs[r].op = "login" /\ reqs[r].user = p
                          \/ reqs[r].op = "refresh" /\ reqs[r].tok.sub = p
  \/ resp'.op = "logout" /\ resp'.tok.sub = p

\* C15: no step of a request made for principal p removes or changes a record
\* owned by another principal.
C15_OtherRecordsUntouched ==
  [][\A p \in Users :
       ActsFor(p)
       => \A i \in 1..Len(store) :
            store[i].user # p => \E j \in 1..Len(store') : store'[j] = store[i]]_vars

\* C16: a refresh presenting a non-empty token is answered 200 or 401.
C16_RefreshFailuresAre401 ==
  (resp.op = "refresh" /\ resp.tok # EmptyToken) => resp.status \in {200, 401}

\* the identifier names no user or the secret is not that user's
BadCredential(email, password) ==
  ~\E u \in Users : u = ToLowerCase(email) /\ Password[u] = password

\* C17: a login with a bad credential is answered 401 by the step that receives
\* it, without tokens, and starts no handler; no record is created or changed
\* and no token is issued.
C17_FailedLoginChangesNothing ==
  [][\A r \in Slots, e \in Emails, p \in Secrets :
       (nreq' # nreq /\ BadCredential(e, p) /\ LoginAuthenticate(r, e, p))
       => /\ resp'.op = "login" /\ resp'.status = 401
          /\ resp'.refresh_token = EmptyToken /\ resp'.access_token = NoClaims
          /\ store' = store /\ pendingDel' = pendingDel
          /\ issued' = issued
          /\ reqs' = reqs]_vars

\* a login answered 401 while the store holds records
C17_Witness ==
  /\ resp.op = "login" /\ resp.status = 401 /\ resp.user = ""
  /\ Len(store) > 0

\* C18: a request to a protected route is answered 401 when it has no
\* Authorization header, a scheme other than Bearer, or an access token that
\* does not verify, and 403 when the token verifies and its admin claim is
\* false; it leaves the RefreshToken collection as it was.
C18_ProtectedRoutes ==
  [][resp'.op = "users"
     => LET t == resp'.access
            verifies == /\ resp'.scheme = "Bearer" /\ t.kind = "access" /\ t.sig
                        /\ clock < t.iat + AccessLife
        IN /\ ~verifies => resp'.status = 401
           /\ (verifies /\ ~t.admin) => resp'.status = 403
           /\ store' = store /\ pendingDel' = pendingDel]_vars

\* what decides that refreshToken answers 200 for token t: findOne({ token })
\* returns a document and jwt.verify passes
Accepts(s, t, now) == FindOneByToken(s, t) # 0 /\ Verify(t, now) = "ok"

\* C19: when a login that found a record of p is answered 200, no other refresh
\* token handed to p by an earlier login is one that refresh would answer 200
\* (no refresh has issued a token in the run, so every issued token is a login's).
C19_OneLiveSession ==
  (resp.op = "login" /\ resp.status = 200 /\ resp.foundId # 0 /\ rotated = {})
    => \A t \in issued :
         (t.sub = resp.user /\ t # resp.refresh_token) => ~Accepts(store, t, clock)

\* C20: a refresh is answered 200 only for a token that carries the server's
\* signature and that was, when the handler looked it up, the currentToken of a
\* record owned by the token's subject.
C20_RefreshOnlyForOwnersCurrent ==
  (resp.op = "refresh" /\ resp.status = 200) => (resp.tok.sig /\ resp.ownerOk)

\* C21: a refresh of an issued token t received right after a logout of t was
\* answered 204 (no login in between) is answered 401.
C21_LoggedOutTokenRejected ==
  (resp.op = "refresh" /\ resp.afterLogout /\ resp.tok \in issued) => resp.status = 401

\* the claims a token carries
ClaimsOf(t) == [sub |-> t.sub, company |-> t.company, admin |-> t.admin]

C23_StoreFailureIsInternal ==
  resp.storeError
    => /\ resp.status = 500
       /\ resp.env # "development" => ~resp.cause

\* C24: a rejected refresh of a well-formed token (unknown, expired or reused)
\* gets the response an unknown token gets: 401 with the message of line 128.
C24_RejectionsIndistinguishable ==
  (resp.op = "refresh" /\ resp.tok.kind = "jwt" /\ resp.status # 200)
    => resp.status = 401 /\ resp.message = "Invalid token"

\* C25: updatePassword leaves the stored passwords as they are and answers 400
\* unless all four fields are present, newPassword equals newPasswordConfirm
\* and email and password authenticate.
C25_PasswordChangedOnlyWhenValid ==
  [][resp'.op = "updatePassword"
     => LET b == resp'.body
            valid == /\ b.email # "" /\ b.password # ""
                     /\ b.newPassword # "" /\ b.newPasswordConfirm # ""
                     /\ b.newPassword = b.newPasswordConfirm
                     /\ \E u \in Users : u = ToLowerCase(b.email) /\ passwords[u] = b.password
        IN ~valid => (passwords' = passwords /\ resp'.status = 400)]_vars

\* the _ids of the documents of s
IdsOf(s) == {s[i].id : i \in 1..Len(s)}

\* C26: no step of a refresh handler creates a record or gives one to another
\* owner: the documents after the step are documents that were there before,
\* with their owners, so a record deleted while the refresh was in flight stays
\* deleted and a principal without record stays without.  Only the save of a
\* login handler adds a document.
C26_RefreshNeverCreates ==
  [][/\ \A r \in Slots :
          (reqs[r].op = "refresh" /\ Steps(r))
          => /\ \A j \in 1..Len(store') : \E i \in 1..Len(store) :
                   store[i].id = store'[j].id /\ store[i].user = store'[j].user
             /\ RecordsOf(store, reqs[r].tok.sub) = {}
                   => RecordsOf(store', reqs[r].tok.sub) = {}
     /\ \A j \in 1..Len(store') :
          \/ store'[j].id \in IdsOf(store)
          \/ \E r \in Slots : /\ reqs[r].op = "login" /\ reqs[r].pc = "save" /\ Steps(r)
                               /\ store'[j].id = reqs[r].docId]_vars

\* a refresh answered 200 whose record was deleted while it was in flight: the
\* record it had found is gone and its principal has no record
C26_Witness ==
  /\ resp.op = "refresh" /\ resp.status = 200
  /\ resp.foundId \notin IdsOf(store)
  /\ RecordsOf(store, resp.tok.sub) = {}

====
